---- MODULE Spec2Model ----
(***************************************************************************)
(* A model of the leo-lambda gateway: the request handler of main.go (the  *)
(* argument and policy pipeline), the bounded capture buffer and the       *)
(* process runner of pkg/executor/executor.go.                             *)
(*                                                                         *)
(* Strings are sequences of one-character strings, so that prefix tests,   *)
(* case folding, trimming and substring search are computed and not        *)
(* assumed.  Bytes of a captured stream are one-character strings too.     *)
(***************************************************************************)
EXTENDS Integers, Sequences, FiniteSets, TLC

VARIABLES
    \* ---- handler (main.go) ----
    cfgEnv,      \* the process-wide configuration the handler reads
    req,         \* the request of the last handler invocation
    resp,        \* its response
    mkdirCalls,  \* the paths it handed to os.MkdirAll
    runCalls,    \* the executor.Config values it handed to executor.Run
    env,         \* what the environment decided during that invocation
    \* ---- limitedBuffer (executor.go) ----
    lb,          \* the buffer: [buf, Limit, Truncated]
    lbWritten,   \* every byte handed to Write so far, in order
    lbRet,       \* the last Write: the slice p it was given, the (n, err) it returned
    \* ---- Run (executor.go) and the processes it starts ----
    runPc,       \* where Run is: "idle", "start", "wait", "returned"
    rcfg,        \* the executor.Config Run was called with
    rcap,        \* cfg.MaxOutputBytes after defaulting
    ctxDone,     \* the caller's context is cancelled or past its deadline
    child,       \* the direct child: "none", "running", "exited", "killed" (by
                 \* os/exec, at the context's end), "signalled" (by another signal)
    killSent,    \* the kill that follows the context's end was delivered
    childCode,   \* the exit status of an exited child
    desc,        \* a process the child spawned: "none", "holding" (it has the
                 \* child's output pipes open), "detached", "exited"
    pipe,        \* per stream, the bytes written and not yet read by the copier
    copier,      \* per stream, the copying goroutine: "none", "copying", "done"
    rbuf,        \* per stream, the limitedBuffer
    wrote,       \* per stream, every byte the child wrote, in order
    res,         \* the Result Run returned
    \* ---- the pipeline's helper functions, applied on their own ----
    fnArgs,      \* the token list they are applied to
    fnOut,       \* the last application: the helper, its other inputs, its results
    \* ---- the cached configuration (cfgMu, cachedCfg, cachedCfgOk) ----
    cachedCfg,   \* the cached EnvConfig, a struct of two words
    cachedCfgOk, \* the cache is marked valid
    cfgMu,       \* the RWMutex: held by the writer, number of readers holding it
    initPc,      \* where init() is
    rd,          \* each currentConfig call: its position, its copies c and ok, its result
    \* ---- the SDK client ----
    sdk          \* one Invoke call: its position, its request, the HTTP exchange, its result

vars == <<cfgEnv, req, resp, mkdirCalls, runCalls, env, lb, lbWritten, lbRet,
         runPc, rcfg, rcap, ctxDone, child, killSent, childCode, desc, pipe, copier,
         rbuf, wrote, res, fnArgs, fnOut, cachedCfg, cachedCfgOk, cfgMu, initPc, rd,
         sdk>>

handlerVars == <<cfgEnv, req, resp, mkdirCalls, runCalls, env>>
bufVars == <<lb, lbWritten, lbRet>>
runVars == <<runPc, rcfg, rcap, ctxDone, child, killSent, childCode, desc, pipe, copier,
            rbuf, wrote, res>>
fnVars == <<fnArgs, fnOut>>
cacheVars == <<cachedCfg, cachedCfgOk, cfgMu, initPc, rd>>

(***************************************************************************)
(* Bounds of the model.                                                    *)
(***************************************************************************)
MaxArgs == 2
\* limitedBuffer: the largest Limit, the longest slice of one Write, and the
\* most bytes written to one buffer.
MaxLimit == 2
MaxWrite == 3
MaxTotal == 5
\* Run: the largest configured cap, the most bytes the child writes (to both
\* streams together), and the bytes a pipe holds before a write blocks.
MaxCap == 2
MaxOut == 3
PipeCap == 2
\* The helper functions: the longest token list they are applied to.
MaxTokens == 3
\* The number of concurrent currentConfig calls.
NumReaders == 2

(***************************************************************************)
(* Go's strings package, on sequences of characters.                       *)
(***************************************************************************)
UpperChars == <<"A","B","C","D","E","F","G","H","I","J","K","L","M",
                "N","O","P","Q","R","S","T","U","V","W","X","Y","Z">>
LowerChars == <<"a","b","c","d","e","f","g","h","i","j","k","l","m",
                "n","o","p","q","r","s","t","u","v","w","x","y","z">>

ToLowerChar(c) ==
    IF \E i \in 1..Len(UpperChars) : UpperChars[i] = c
    THEN LowerChars[CHOOSE i \in 1..Len(UpperChars) : UpperChars[i] = c]
    ELSE c

ToLower(s) == [i \in 1..Len(s) |-> ToLowerChar(s[i])]

IsSpace(c) == c \in {" ", "\t", "\n", "\r"}

SetMin(S) == CHOOSE x \in S : \A y \in S : x <= y
SetMax(S) == CHOOSE x \in S : \A y \in S : y <= x

TrimSpace(s) ==
    LET keep == {i \in 1..Len(s) : ~IsSpace(s[i])}
    IN  IF keep = {} THEN <<>> ELSE SubSeq(s, SetMin(keep), SetMax(keep))

HasPrefix(s, p) == Len(s) >= Len(p) /\ SubSeq(s, 1, Len(p)) = p

\* strings.Index: the 0-based position of the first occurrence, -1 if none.
Index(s, sep) ==
    LET at == {i \in 0..(Len(s) - Len(sep)) : SubSeq(s, i + 1, i + Len(sep)) = sep}
    IN  IF at = {} THEN -1 ELSE SetMin(at)

Contains(s, sep) == Index(s, sep) >= 0

EqualFold(a, b) == ToLower(a) = ToLower(b)

(***************************************************************************)
(* Tokens and literals.                                                    *)
(***************************************************************************)
sExecute == <<"e","x","e","c","u","t","e">>
sExecuteMixed == <<"E","x","e","c","u","t","e">>
sBuild == <<"b","u","i","l","d">>
sDashDash == <<"-","-">>
sEndpointFlag == <<"-","-","e","n","d","p","o","i","n","t">>
sEndpointEq == <<"-","-","e","n","d","p","o","i","n","t","=","u">>
sPrivateKeyFlag == <<"-","-","p","r","i","v","a","t","e","-","k","e","y">>
sKFlag == <<"-","k">>
sTarget == <<"n","s","/","a","c","t">>
sTargetMixed == <<"N","s","/","A","c","t">>
sOtherTarget == <<"z","z","/","a","c","t">>
sUrl == <<"h",":","/","/","p","/","q">>
sBlank == <<" ">>
sTargetBlankAction == <<"n","s","/"," ">>
sSlashFirst == <<"/","a","/","b">>
sEchoBin == <<"e","c","h","o">>
sLeoBin == <<"l","e","o">>
sNs == <<"n","s">>
sNsPadded == <<" ","N","s">>
sVersion == <<"v","e","r","s","i","o","n">>
sKey == <<"k","e","y","1">>
sKey2 == <<"k","e","y","2">>
sRpcUrl == <<"h",":","/","/","r","p","c">>
sRpcBare == <<"r","p","c","/","v","1">>
sWorkdir == <<"/","t","m","p","/","l","e","o","-","w","o","r","k">>
sReqWorkdir == <<"/","w">>
sSchemeSep == <<":","/","/">>
sSlash == <<"/">>
sDash == <<"-">>
sEq == <<"=">>

\* Texts of the executor.
sNewline == <<"\n">>
sInstallation == <<"I","n","s","t","a","l","l","a","t","i","o","n">>
sFailedToStore == <<"F","a","i","l","e","d"," ","t","o"," ","s","t","o","r","e">>
sPowersOfBeta == <<"p","o","w","e","r","s","-","o","f","-","b","e","t","a">>
sExitStatus1 == <<"e","x","i","t"," ","s","t","a","t","u","s"," ","1">>
sSignalKilled == <<"s","i","g","n","a","l",":"," ","k","i","l","l","e","d">>
sContextCanceled == <<"c","o","n","t","e","x","t"," ","c","a","n","c","e","l","e","d">>
sExecNotFound == <<"e","x","e","c",":"," ","\"","l","e","o","\"",":"," ","e","x","e",
      "c","u","t","a","b","l","e"," ","f","i","l","e"," ","n","o","t",
      " ","f","o","u","n","d"," ","i","n"," ","$","P","A","T","H">>
sMkdirDenied == <<"m","k","d","i","r"," ","/","w",":"," ","p","e","r","m","i","s","s",
      "i","o","n"," ","d","e","n","i","e","d">>

\* The tokens a request's argument list is drawn from.
Tokens == {sExecute, sExecuteMixed, sBuild, sDashDash, sKFlag, sEndpointEq,
           sTarget, sOtherTarget, sUrl, sBlank}

RECURSIVE SeqsUpTo(_, _)
SeqsUpTo(S, n) ==
    IF n = 0 THEN {<<>>}
    ELSE LET shorter == SeqsUpTo(S, n - 1)
         IN  shorter \cup {Append(s, x) : s \in {t \in shorter : Len(t) = n - 1}, x \in S}

ArgLists == SeqsUpTo(Tokens, MaxArgs)


(***************************************************************************)
(* Configuration (EnvConfig) and requests.                                 *)
(***************************************************************************)
envDefaultMaxOutputBytes == 5500000

EnvConfigOf(cmds, contracts, rpc, leoKey, walletKey, dry) ==
    [AllowedCommands  |-> cmds,
     AllowedContracts |-> contracts,
     LeoPrivateKey    |-> leoKey,
     WalletPrivateKey |-> walletKey,
     LeoBin           |-> sLeoBin,
     DryRun           |-> dry,
     MaxOutputBytes   |-> envDefaultMaxOutputBytes,
     DefaultWorkdir   |-> sWorkdir,
     RPCURL           |-> rpc]

\* The configurations the environment variables can produce, in the model.
Configs ==
    {EnvConfigOf(<<sExecute>>, <<>>, <<>>, <<>>, <<>>, TRUE),
     EnvConfigOf(<<sExecute>>, <<>>, sRpcUrl, sKey, <<>>, TRUE),
     EnvConfigOf(<<sExecute>>, <<>>, sRpcUrl, sKey2, <<>>, TRUE),
     EnvConfigOf(<<sExecute>>, <<sNs>>, <<>>, <<>>, <<>>, TRUE),
     EnvConfigOf(<<sExecute>>, <<sNsPadded>>, sRpcUrl, sBlank, sKey2, TRUE),
     EnvConfigOf(<<sExecute>>, <<sBlank, sNs>>, sRpcBare, <<>>, <<>>, TRUE),
     EnvConfigOf(<<sExecute>>, <<sBlank>>, sRpcUrl, sKey, <<>>, TRUE),
     EnvConfigOf(<<sExecuteMixed, sBuild>>, <<sNs, sNsPadded>>, sBlank, sKey, sKey2, TRUE),
     EnvConfigOf(<<sBlank>>, <<>>, <<>>, sKey, <<>>, TRUE),
     EnvConfigOf(<<sBlank, sBlank>>, <<sNs>>, sRpcBare, <<>>, <<>>, TRUE),
     EnvConfigOf(<<sExecute, sVersion>>, <<>>, <<>>, sKey, <<>>, FALSE),
     EnvConfigOf(<<sExecute, sVersion>>, <<sNs>>, sRpcUrl, <<>>, <<>>, FALSE)}

\* A cmd string: the words it holds and whether its quoting is balanced.  A
\* word is a literal or a reference to an environment variable.
Lit(tok) == [kind |-> "lit", val |-> tok]
EnvRef(name) == [kind |-> "env", val |-> name]
NoCmd == [bad |-> FALSE, words |-> <<>>]
CmdValues ==
    {NoCmd,
     [bad |-> TRUE,  words |-> <<Lit(sExecute)>>],
     [bad |-> FALSE, words |-> <<Lit(sExecute), Lit(sTarget)>>],
     [bad |-> FALSE, words |-> <<Lit(sBuild)>>],
     [bad |-> FALSE, words |-> <<Lit(sExecute), Lit(sTarget), EnvRef("LEO_PRIVATE_KEY")>>],
     [bad |-> FALSE, words |-> <<Lit(sBuild), EnvRef("LEO_PRIVATE_KEY")>>]}

\* body: "ok" (JSON decodes), "badjson", "badb64" (flagged base64, undecodable).
RequestOf(method, body, args, cmd, workdir, qargs) ==
    [method |-> method, body |-> body, args |-> args, cmd |-> cmd,
     workdir |-> workdir, qargs |-> qargs]

Requests ==
    {RequestOf("POST", "ok", a, NoCmd, <<>>, <<>>) : a \in ArgLists}
    \cup {RequestOf("POST", "ok", a, c, w, <<>>) :
            a \in {<<>>, <<sExecute, sTarget>>}, c \in CmdValues,
            w \in {sBlank, sReqWorkdir}}
    \cup {RequestOf("POST", b, <<sExecute>>, NoCmd, <<>>, <<>>) : b \in {"badjson", "badb64"}}
    \cup {RequestOf("GET", "ok", <<>>, c, w, q) :
            c \in CmdValues, w \in {<<>>, sReqWorkdir},
            q \in {<<>>, << <<>> >>, << <<sExecute>>, <<sTarget, sKFlag>> >>}}

NoRequest == RequestOf("NONE", "ok", <<>>, NoCmd, <<>>, <<>>)

(***************************************************************************)
(* parseArgs                                                               *)
(***************************************************************************)
\* os.Getenv, for the variables the configuration was parsed from.
Getenv(cfg, name) ==
    IF name = "LEO_PRIVATE_KEY" THEN cfg.LeoPrivateKey
    ELSE IF name = "WALLET_PRIVATE_KEY" THEN cfg.WalletPrivateKey
    ELSE IF name = "RPC_URL" THEN cfg.RPCURL
    ELSE <<>>

\* shellwords.Parser{ParseEnv: true}.Parse: an unquoted word that expands to
\* nothing yields no token.
RECURSIVE ShellWords(_, _)
ShellWords(words, cfg) ==
    IF words = <<>> THEN <<>>
    ELSE LET w == Head(words)
             v == IF w.kind = "lit" THEN w.val ELSE Getenv(cfg, w.val)
         IN  (IF TrimSpace(v) = <<>> THEN <<>> ELSE <<v>>) \o ShellWords(Tail(words), cfg)

RECURSIVE Flatten(_)
Flatten(parts) ==
    IF parts = <<>> THEN <<>> ELSE Head(parts) \o Flatten(Tail(parts))

ParseError == [err |-> TRUE, args |-> <<>>, workdir |-> <<>>]
Parsed(args, workdir) == [err |-> FALSE, args |-> args, workdir |-> workdir]

parseArgs(r, cfg) ==
    IF r.method = "POST"
    THEN IF r.body # "ok" THEN ParseError
         ELSE LET workdir == IF TrimSpace(r.workdir) # <<>> THEN r.workdir
                             ELSE cfg.DefaultWorkdir
              IN  IF Len(r.args) > 0 THEN Parsed(r.args, workdir)
                  ELSE IF r.cmd.words # <<>>
                       THEN IF r.cmd.bad THEN ParseError
                            ELSE Parsed(ShellWords(r.cmd.words, cfg), workdir)
                       ELSE ParseError
    ELSE LET workdir == IF TrimSpace(r.workdir) # <<>> THEN r.workdir
                        ELSE cfg.DefaultWorkdir
         IN  IF r.cmd.words # <<>>
             THEN IF r.cmd.bad THEN ParseError
                  ELSE Parsed(ShellWords(r.cmd.words, cfg), workdir)
             ELSE IF Len(Flatten(r.qargs)) > 0 THEN Parsed(Flatten(r.qargs), workdir)
             ELSE ParseError


(***************************************************************************)
(* The argument helpers of main.go.                                        *)
(***************************************************************************)
RECURSIVE firstSubcommandScan(_, _, _)
firstSubcommandScan(args, i, skipFlags) ==
    IF i > Len(args) THEN <<>>
    ELSE LET tok == args[i]
         IN  IF skipFlags /\ tok = sDashDash
             THEN firstSubcommandScan(args, i + 1, FALSE)
             ELSE IF skipFlags /\ HasPrefix(tok, sDash)
             THEN firstSubcommandScan(args, i + 1, skipFlags)
             ELSE IF TrimSpace(tok) # <<>> THEN ToLower(tok)
             ELSE firstSubcommandScan(args, i + 1, skipFlags)

\* firstSubcommand never leaving flag-skipping: "--" is one more flag.
firstSubcommandAlwaysSkipping(args) ==
    IF Len(args) = 0 THEN [sub |-> <<>>, err |-> TRUE]
    ELSE LET q == {i \in 1..Len(args) :
                      ~HasPrefix(args[i], sDash) /\ TrimSpace(args[i]) # <<>>}
         IN  [sub |-> IF q = {} THEN <<>> ELSE ToLower(args[SetMin(q)]), err |-> FALSE]

firstSubcommand(args) ==
    IF Len(args) = 0 THEN [sub |-> <<>>, err |-> TRUE]
    ELSE [sub |-> firstSubcommandScan(args, 1, TRUE), err |-> FALSE]

RECURSIVE extractExecuteContractScan(_, _)
extractExecuteContractScan(args, i) ==
    IF i > Len(args) THEN [contract |-> <<>>, method |-> <<>>]
    ELSE LET tok == args[i]
             at  == Index(tok, sSlash)
         IN  IF HasPrefix(tok, sDash) \/ TrimSpace(tok) = <<>>
             THEN extractExecuteContractScan(args, i + 1)
             ELSE IF Contains(tok, sSchemeSep)
             THEN extractExecuteContractScan(args, i + 1)
             ELSE IF at > 0 /\ at < Len(tok) - 1
             THEN [contract |-> ToLower(TrimSpace(SubSeq(tok, 1, at))),
                   method   |-> ToLower(TrimSpace(SubSeq(tok, at + 2, Len(tok))))]
             ELSE extractExecuteContractScan(args, i + 1)

extractExecuteContract(args) == extractExecuteContractScan(args, 1)

hasAnyFlag(args, names) ==
    \E i \in 1..Len(args) : \E n \in names :
        args[i] = n \/ HasPrefix(args[i], n \o sEq)

\* The 1-based position of the subcommand token, 0 when there is none.
RECURSIVE subcommandIndex(_, _, _, _)
subcommandIndex(args, subcmd, i, skipFlags) ==
    IF i > Len(args) THEN 0
    ELSE LET tok == args[i]
         IN  IF skipFlags /\ tok = sDashDash
             THEN subcommandIndex(args, subcmd, i + 1, FALSE)
             ELSE IF skipFlags /\ HasPrefix(tok, sDash)
             THEN subcommandIndex(args, subcmd, i + 1, skipFlags)
             ELSE IF EqualFold(tok, subcmd) THEN i
             ELSE subcommandIndex(args, subcmd, i + 1, skipFlags)

\* The injection that never looks for the subcommand: it always prepends.
injectPrepend(args, subcmd, flag, value) == <<flag, value>> \o args

injectFlagValueAfterSubcommand(args, subcmd, flag, value) ==
    LET idx == subcommandIndex(args, subcmd, 1, TRUE)
    IN  IF idx >= 1
        THEN SubSeq(args, 1, idx) \o <<flag, value>> \o SubSeq(args, idx + 1, Len(args))
        ELSE <<flag, value>> \o args

\* Injection without the presence test: the flag is spliced in every time.
injectAlways(args, names, subcmd, flag, value) ==
    injectFlagValueAfterSubcommand(args, subcmd, flag, value)

\* The handler's injection step (lines 223-225 and 238-242): nothing when
\* one of the flag's names is present, the splice otherwise.
injectIfAbsent(args, names, subcmd, flag, value) ==
    IF hasAnyFlag(args, names) THEN args
    ELSE injectFlagValueAfterSubcommand(args, subcmd, flag, value)

RECURSIVE firstNonEmpty(_)
firstNonEmpty(vals) ==
    IF vals = <<>> THEN <<>>
    ELSE IF TrimSpace(Head(vals)) # <<>> THEN Head(vals)
    ELSE firstNonEmpty(Tail(vals))

(***************************************************************************)
(* handler: the allow-list checks and the flag injection (the pipeline).   *)
(***************************************************************************)
StatusOK == 200
StatusBadRequest == 400
StatusForbidden == 403
StatusInternalServerError == 500

\* The effective allowed-subcommand set.
allowedCommands(cfg) ==
    IF Len(cfg.AllowedCommands) = 0 THEN {sExecute}
    ELSE {ToLower(TrimSpace(cfg.AllowedCommands[i])) : i \in 1..Len(cfg.AllowedCommands)}
         \ {<<>>}

\* The loop over the configured contracts: it builds the allowed-namespace
\* set and, in each iteration, injects the endpoint when it is not yet there.
RECURSIVE contractsLoop(_, _, _, _)
contractsLoop(cfg, i, set, args) ==
    IF i > Len(cfg.AllowedContracts) THEN [set |-> set, args |-> args]
    ELSE LET v    == ToLower(TrimSpace(cfg.AllowedContracts[i]))
             set1 == IF v # <<>> THEN set \cup {v} ELSE set
             args1 == IF TrimSpace(cfg.RPCURL) # <<>> /\ ~hasAnyFlag(args, {sEndpointFlag})
                      THEN injectFlagValueAfterSubcommand(args, sExecute, sEndpointFlag, cfg.RPCURL)
                      ELSE args
         IN  contractsLoop(cfg, i + 1, set1, args1)

\* subcommandCheck with the membership test inverted for an empty subcommand
\* only: every non-empty subcommand passes.
subcommandCheckOff(allowed, subcmd) ==
    IF subcmd = <<>> /\ allowed # {} /\ subcmd \notin allowed
    THEN StatusForbidden
    ELSE 0

\* The check of the subcommand against the allowed set: the status it
\* rejects with, 0 when it passes.
subcommandCheck(allowed, subcmd) ==
    IF subcmd # <<>> /\ allowed # {} /\ subcmd \notin allowed
    THEN StatusForbidden
    ELSE 0

\* The check of the target reference: the status it rejects with, 0 when it passes.
contractCheck(allowedContracts, args) ==
    IF allowedContracts # {}
    THEN LET contract == extractExecuteContract(args).contract
         IN  IF contract # <<>>
             THEN IF ToLower(contract) \notin allowedContracts THEN StatusForbidden ELSE 0
             ELSE StatusBadRequest
    ELSE 0

\* injectPrivateKey that looks for the long flag only: "-k" does not count.
injectPrivateKeyLongOnly(cfg, args) ==
    IF ~hasAnyFlag(args, {sPrivateKeyFlag})
    THEN LET pk == firstNonEmpty(<<cfg.LeoPrivateKey, cfg.WalletPrivateKey>>)
         IN  IF pk # <<>>
             THEN injectFlagValueAfterSubcommand(args, sExecute, sPrivateKeyFlag, pk)
             ELSE args
    ELSE args

injectPrivateKey(cfg, args) ==
    IF ~hasAnyFlag(args, {sPrivateKeyFlag, sKFlag})
    THEN LET pk == firstNonEmpty(<<cfg.LeoPrivateKey, cfg.WalletPrivateKey>>)
         IN  IF pk # <<>>
             THEN injectFlagValueAfterSubcommand(args, sExecute, sPrivateKeyFlag, pk)
             ELSE args
    ELSE args

Rejected(status) == [status |-> status, args |-> <<>>, workdir |-> <<>>, subcmd |-> <<>>]
Passed(args, workdir, subcmd) ==
    [status |-> 0, args |-> args, workdir |-> workdir, subcmd |-> subcmd]

\* Lines 185-243 of handler: status 0 and the vetted argument list, or the
\* status of the rejection.
pipeline(r, cfg) ==
    LET parsed == parseArgs(r, cfg)
    IN  IF parsed.err THEN Rejected(StatusBadRequest)
        ELSE
        LET args    == parsed.args
            allowed == allowedCommands(cfg)
            first   == firstSubcommand(args)
            subcmd  == first.sub
        IN  IF first.err THEN Rejected(StatusBadRequest)
            ELSE IF subcommandCheck(allowed, subcmd) # 0
            THEN Rejected(subcommandCheck(allowed, subcmd))
            ELSE IF subcmd = sExecute
            THEN LET loop == contractsLoop(cfg, 1, {}, args)
                     chk  == contractCheck(loop.set, loop.args)
                 IN  IF chk # 0 THEN Rejected(chk)
                     ELSE Passed(injectPrivateKey(cfg, loop.args), parsed.workdir, subcmd)
            ELSE Passed(args, parsed.workdir, subcmd)


(***************************************************************************)
(* handler: the whole function.  env holds what the environment decides:   *)
(* whether the configuration parses, whether os.MkdirAll succeeds, and the *)
(* Result executor.Run returns.                                            *)
(***************************************************************************)
NoEnv == [cfgOk |-> TRUE, mkdirOk |-> TRUE, res |-> [ExitCode |-> 0, TimedOut |-> FALSE]]

Envs ==
    {[cfgOk |-> FALSE, mkdirOk |-> TRUE,  res |-> [ExitCode |-> 0, TimedOut |-> FALSE]],
     [cfgOk |-> TRUE,  mkdirOk |-> FALSE, res |-> [ExitCode |-> 0, TimedOut |-> FALSE]],
     [cfgOk |-> TRUE,  mkdirOk |-> TRUE,  res |-> [ExitCode |-> 0, TimedOut |-> FALSE]],
     [cfgOk |-> TRUE,  mkdirOk |-> TRUE,  res |-> [ExitCode |-> 1, TimedOut |-> FALSE]],
     [cfgOk |-> TRUE,  mkdirOk |-> TRUE,  res |-> [ExitCode |-> 0, TimedOut |-> TRUE]]}

jsonResp(status, bin) == [status |-> status, bin |-> bin]

Outcome(response, mkdirs, runs) ==
    [resp |-> response, mkdirCalls |-> mkdirs, runCalls |-> runs]

\* handler with the working directory prepared before the pipeline has
\* accepted the request.
handlerMkdirFirst(r, cfg, e) ==
    IF ~e.cfgOk THEN Outcome(jsonResp(StatusInternalServerError, <<>>), <<>>, <<>>)
    ELSE
    LET p == pipeline(r, cfg)
        w == parseArgs(r, cfg).workdir
    IN  IF ~e.mkdirOk
        THEN Outcome(jsonResp(StatusInternalServerError, <<>>), <<w>>, <<>>)
        ELSE IF p.status # 0 THEN Outcome(jsonResp(p.status, <<>>), <<w>>, <<>>)
        ELSE
        LET bin == IF cfg.DryRun THEN sEchoBin ELSE cfg.LeoBin
            cfg2 == [BinPath |-> bin, Args |-> p.args, WorkDir |-> p.workdir,
                     MaxOutputBytes |-> cfg.MaxOutputBytes]
            status == IF e.res.TimedOut \/ e.res.ExitCode # 0
                      THEN StatusInternalServerError ELSE StatusOK
        IN  Outcome(jsonResp(status, bin), <<p.workdir>>, <<cfg2>>)

\* handler that calls executor.Run a second time when the first run was
\* not successful.
handlerRetrying(r, cfg, e) ==
    IF ~e.cfgOk THEN Outcome(jsonResp(StatusInternalServerError, <<>>), <<>>, <<>>)
    ELSE
    LET p == pipeline(r, cfg)
    IN  IF p.status # 0 THEN Outcome(jsonResp(p.status, <<>>), <<>>, <<>>)
        ELSE IF ~e.mkdirOk
        THEN Outcome(jsonResp(StatusInternalServerError, <<>>), <<p.workdir>>, <<>>)
        ELSE
        LET bin == IF cfg.DryRun THEN sEchoBin ELSE cfg.LeoBin
            cfg2 == [BinPath |-> bin, Args |-> p.args, WorkDir |-> p.workdir,
                     MaxOutputBytes |-> cfg.MaxOutputBytes]
            failed == e.res.TimedOut \/ e.res.ExitCode # 0
            status == IF failed THEN StatusInternalServerError ELSE StatusOK
        IN  Outcome(jsonResp(status, bin), <<p.workdir>>,
                    IF failed THEN <<cfg2, cfg2>> ELSE <<cfg2>>)

\* handler without the dry-run replacement of the binary.
handlerIgnoringDryRun(r, cfg, e) ==
    IF ~e.cfgOk THEN Outcome(jsonResp(StatusInternalServerError, <<>>), <<>>, <<>>)
    ELSE
    LET p == pipeline(r, cfg)
    IN  IF p.status # 0 THEN Outcome(jsonResp(p.status, <<>>), <<>>, <<>>)
        ELSE IF ~e.mkdirOk
        THEN Outcome(jsonResp(StatusInternalServerError, <<>>), <<p.workdir>>, <<>>)
        ELSE
        LET bin == cfg.LeoBin
            cfg2 == [BinPath |-> bin, Args |-> p.args, WorkDir |-> p.workdir,
                     MaxOutputBytes |-> cfg.MaxOutputBytes]
            status == IF e.res.TimedOut \/ e.res.ExitCode # 0
                      THEN StatusInternalServerError ELSE StatusOK
        IN  Outcome(jsonResp(status, bin), <<p.workdir>>, <<cfg2>>)

handler(r, cfg, e) ==
    IF ~e.cfgOk THEN Outcome(jsonResp(StatusInternalServerError, <<>>), <<>>, <<>>)
    ELSE
    LET p == pipeline(r, cfg)
    IN  IF p.status # 0 THEN Outcome(jsonResp(p.status, <<>>), <<>>, <<>>)
        ELSE IF ~e.mkdirOk
        THEN Outcome(jsonResp(StatusInternalServerError, <<>>), <<p.workdir>>, <<>>)
        ELSE
        LET bin == IF cfg.DryRun THEN sEchoBin ELSE cfg.LeoBin
            cfg2 == [BinPath |-> bin, Args |-> p.args, WorkDir |-> p.workdir,
                     MaxOutputBytes |-> cfg.MaxOutputBytes]
            status == IF e.res.TimedOut \/ e.res.ExitCode # 0
                      THEN StatusInternalServerError ELSE StatusOK
        IN  Outcome(jsonResp(status, bin), <<p.workdir>>, <<cfg2>>)

(***************************************************************************)
(* limitedBuffer                                                           *)
(***************************************************************************)
newLimitedBuffer(limit) == [buf |-> <<>>, Limit |-> limit, Truncated |-> FALSE]

Min2(a, b) == IF a <= b THEN a ELSE b

\* Write keeping the earliest bytes: once full, what follows is dropped.
WriteKeepHead(b, p) ==
    IF Len(p) = 0 THEN [b |-> b, n |-> 0, err |-> "nil"]
    ELSE LET free == b.Limit - Len(b.buf)
         IN  IF Len(p) <= free
             THEN [b |-> [b EXCEPT !.buf = b.buf \o p], n |-> Len(p), err |-> "nil"]
             ELSE [b |-> [b EXCEPT !.buf = b.buf \o SubSeq(p, 1, free),
                                   !.Truncated = TRUE],
                   n |-> Len(p), err |-> "nil"]

\* Write: the buffer after the call and the (n, err) it returns.
Write(b, p) ==
    IF Len(p) = 0 THEN [b |-> b, n |-> 0, err |-> "nil"]
    ELSE IF b.Limit <= 0
    THEN [b |-> [b EXCEPT !.buf = b.buf \o p], n |-> Len(p), err |-> "nil"]
    ELSE IF Len(p) >= b.Limit
    THEN [b |-> [b EXCEPT !.buf = SubSeq(p, Len(p) - b.Limit + 1, Len(p)),
                          !.Truncated = TRUE],
          n |-> Len(p), err |-> "nil"]
    ELSE LET free == b.Limit - Len(b.buf)
         IN  IF Len(p) <= free
             THEN [b |-> [b EXCEPT !.buf = b.buf \o p], n |-> Len(p), err |-> "nil"]
             ELSE LET drop == Min2(Len(p) - free, Len(b.buf))
                  IN  [b |-> [b EXCEPT !.buf = SubSeq(b.buf, drop + 1, Len(b.buf)) \o p,
                                       !.Truncated = TRUE],
                       n |-> Len(p), err |-> "nil"]

(***************************************************************************)
(* The handler's specification: requests arrive one at a time; the         *)
(* configuration may be reloaded between two requests.                     *)
(***************************************************************************)
\* The idle values of the three parts of the state.
Streams == {"stdout", "stderr"}
NoResult == [ExitCode |-> 0, Stdout |-> <<>>, Stderr |-> <<>>, Truncated |-> FALSE]
NoConfig == [MaxOutputBytes |-> 0, WorkDir |-> <<>>]

\* No helper has been applied.
FnNone == [op |-> "none", flag |-> <<>>, value |-> <<>>, sub |-> <<>>, err |-> FALSE,
           contract |-> <<>>, method |-> <<>>, once |-> <<>>, twice |-> <<>>]

\* The SDK client at rest: no call of Invoke in progress.
NoSdkRequest == [Args |-> <<>>, Cmd |-> <<>>]
NoBody == [raw |-> <<>>, json |-> FALSE, error |-> <<>>]
NoInvokeError == [StatusCode |-> 0, Message |-> <<>>]
SdkNone == [pc |-> "idle", req |-> NoSdkRequest, nilClient |-> FALSE, http |-> 0,
            status |-> 0, body |-> NoBody, err |-> "none", ierr |-> NoInvokeError]
SdkIdle == sdk = SdkNone

\* The cache before init() has run: the zero EnvConfig, not marked valid.
Readers == 1..NumReaders
ZeroCfg == <<0, 0>>
WrittenCfg == <<1, 1>>
NoRet == [kind |-> "none", c |-> ZeroCfg]
ReaderIdle == [pc |-> "idle", c |-> ZeroCfg, ok |-> FALSE, ret |-> NoRet]
CacheIdle ==
    /\ cachedCfg = ZeroCfg
    /\ cachedCfgOk = FALSE
    /\ cfgMu = [writer |-> FALSE, readers |-> 0]
    /\ initPc = "load"
    /\ rd = [r \in Readers |-> ReaderIdle]

FnIdle ==
    /\ fnArgs = <<>>
    /\ fnOut = FnNone

RunIdle ==
    /\ runPc = "idle"
    /\ rcfg = NoConfig
    /\ rcap = 0
    /\ ctxDone = FALSE
    /\ child = "none"
    /\ childCode = 0
    /\ killSent = FALSE
    /\ desc = "none"
    /\ pipe = [s \in Streams |-> <<>>]
    /\ copier = [s \in Streams |-> "none"]
    /\ rbuf = [s \in Streams |-> newLimitedBuffer(0)]
    /\ wrote = [s \in Streams |-> <<>>]
    /\ res = NoResult

BufIdle ==
    /\ lb = newLimitedBuffer(1)
    /\ lbWritten = <<>>
    /\ lbRet = [p |-> <<>>, n |-> 0, err |-> "nil"]

HandlerIdle ==
    /\ cfgEnv = EnvConfigOf(<<sExecute>>, <<>>, <<>>, <<>>, <<>>, FALSE)
    /\ req = NoRequest
    /\ resp = jsonResp(0, <<>>)
    /\ mkdirCalls = <<>>
    /\ runCalls = <<>>
    /\ env = NoEnv

Init ==
    /\ cfgEnv \in Configs
    /\ req = NoRequest
    /\ resp = jsonResp(0, <<>>)
    /\ mkdirCalls = <<>>
    /\ runCalls = <<>>
    /\ env = NoEnv
    /\ BufIdle
    /\ RunIdle
    /\ FnIdle
    /\ CacheIdle
    /\ SdkIdle

Invoke ==
    /\ req = NoRequest
    /\ \E r \in Requests, e \in Envs :
          LET out == handler(r, cfgEnv, e)
          IN  /\ req' = r
              /\ resp' = out.resp
              /\ mkdirCalls' = out.mkdirCalls
              /\ runCalls' = out.runCalls
              /\ env' = e
    /\ UNCHANGED <<cacheVars, sdk, cfgEnv, bufVars, runVars, fnVars>>

\* The response has been delivered: the handler is ready for the next request.
Respond ==
    /\ req # NoRequest
    /\ req' = NoRequest
    /\ resp' = jsonResp(0, <<>>)
    /\ mkdirCalls' = <<>>
    /\ runCalls' = <<>>
    /\ env' = NoEnv
    /\ UNCHANGED <<cacheVars, sdk, cfgEnv, bufVars, runVars, fnVars>>

\* CONFIG_RELOAD_EACH_INVOCATION: the next request reads a fresh configuration.
Reload ==
    /\ req = NoRequest
    /\ cfgEnv' \in Configs
    /\ UNCHANGED <<cacheVars, sdk, req, resp, mkdirCalls, runCalls, env, bufVars, runVars, fnVars>>

Next == Invoke \/ Respond \/ Reload

Spec == Init /\ [][Next]_vars


(***************************************************************************)
(* What the last invocation saw, read back from the state.                 *)
(***************************************************************************)
Invoked == req # NoRequest
ReqParsed == parseArgs(req, cfgEnv)
ReqArgs == ReqParsed.args
ReqSubcommand == firstSubcommand(ReqArgs).sub
\* The request reached the subcommand check: the configuration loaded, the
\* payload parsed and it holds at least one token.
ReachedSubcommandCheck ==
    Invoked /\ env.cfgOk /\ ~ReqParsed.err /\ ~firstSubcommand(ReqArgs).err
RanProcess == runCalls # <<>>
\* The allowed-namespace set the handler builds (blank entries dropped).
AllowedNamespaces ==
    {ToLower(TrimSpace(cfgEnv.AllowedContracts[i])) : i \in 1..Len(cfgEnv.AllowedContracts)}
    \ {<<>>}

C2_RejectionHasNoSideEffects ==
    resp.status \in {StatusBadRequest, StatusForbidden}
        => (mkdirCalls = <<>> /\ runCalls = <<>>)

\* C2 witness: a disallowed subcommand has been rejected with 403.
C2_Witness ==
    /\ Invoked /\ resp.status = StatusForbidden
    /\ ReqSubcommand = sBuild
    /\ allowedCommands(cfgEnv) = {sExecute}

(***************************************************************************)
(* C3: the target allow-list is enforced only for "execute": with a        *)
(* non-empty allowed-namespace set, a request with no parseable target     *)
(* reference is rejected with 400, one whose target namespace is not a     *)
(* member with 403, and any other passes; with an empty set, or another    *)
(* subcommand, no target check is made.                                    *)
(* The claim as stated, on the tokens the client sent.                     *)
(***************************************************************************)
ReachedTargetCheck ==
    /\ ReachedSubcommandCheck
    /\ subcommandCheck(allowedCommands(cfgEnv), ReqSubcommand) = 0
    /\ ReqSubcommand = sExecute
    /\ AllowedNamespaces # {}

C3_TargetAllowlist ==
    /\ ReachedTargetCheck =>
          LET ns == extractExecuteContract(ReqArgs).contract
          IN  /\ ns = <<>> => resp.status = StatusBadRequest
              /\ (ns # <<>> /\ ns \notin AllowedNamespaces) => resp.status = StatusForbidden
              /\ (ns # <<>> /\ ns \in AllowedNamespaces)
                    => resp.status \notin {StatusBadRequest, StatusForbidden}
    /\ (ReachedSubcommandCheck
           /\ subcommandCheck(allowedCommands(cfgEnv), ReqSubcommand) = 0
           /\ (ReqSubcommand # sExecute \/ AllowedNamespaces = {}))
          => resp.status \notin {StatusBadRequest, StatusForbidden}


(***************************************************************************)
(* The specification of one limitedBuffer: created with a positive Limit   *)
(* (Run never creates another), then written any number of times.          *)
(***************************************************************************)
Bytes == {"a", "b"}
Slices == SeqsUpTo(Bytes, MaxWrite)

BufInit ==
    /\ HandlerIdle
    /\ RunIdle
    /\ FnIdle
    /\ CacheIdle
    /\ SdkIdle
    /\ \E n \in 1..MaxLimit : lb = newLimitedBuffer(n)
    /\ lbWritten = <<>>
    /\ lbRet = [p |-> <<>>, n |-> 0, err |-> "nil"]

BufWrite ==
    \E p \in Slices :
        /\ Len(lbWritten) + Len(p) <= MaxTotal
        /\ LET w == Write(lb, p)
           IN  /\ lb' = w.b
               /\ lbRet' = [p |-> p, n |-> w.n, err |-> w.err]
        /\ lbWritten' = lbWritten \o p
        /\ UNCHANGED <<cacheVars, sdk, handlerVars, runVars, fnVars>>

BufNext == BufWrite

BufSpec == BufInit /\ [][BufNext]_vars

\* The last k elements of s.
LastN(s, k) == SubSeq(s, Len(s) - k + 1, Len(s))

(***************************************************************************)
(* C4: for a limitedBuffer with Limit N > 0, after any sequence of Writes  *)
(* the content has length at most N and is the last min(T, N) bytes of     *)
(* everything written (T bytes in all); every Write returns len(p) and a   *)
(* nil error.                                                              *)
(***************************************************************************)
C4_BufferKeepsTail ==
    lb.Limit > 0 =>
        /\ Len(lb.buf) <= lb.Limit
        /\ lb.buf = LastN(lbWritten, Min2(Len(lbWritten), lb.Limit))
        /\ lbRet.n = Len(lbRet.p)
        /\ lbRet.err = "nil"

\* C4 witness: the buffer overflowed on a Write shorter than its Limit, so
\* bytes of an earlier Write were dropped from the front.
C4_Witness ==
    /\ Len(lbWritten) > lb.Limit
    /\ lbRet.p # <<>> /\ Len(lbRet.p) < lb.Limit
    /\ Len(lb.buf) = lb.Limit

(***************************************************************************)
(* C6: Truncated is true exactly when a written byte has been discarded    *)
(* (more than N bytes written in all), false while at most N bytes have    *)
(* been written, and once true it stays true.                              *)
(***************************************************************************)
C6_TruncatedIffDropped ==
    /\ [](lb.Limit > 0 => (lb.Truncated <=> Len(lbWritten) > lb.Limit))
    /\ [][lb.Truncated => lb'.Truncated]_vars


(***************************************************************************)
(* executor.Run: the pure helpers.                                         *)
(***************************************************************************)
defaultMaxOutputBytes == 65536

stdOutExcludedStrings == <<sInstallation>>
stdErrExcludedStrings == <<sFailedToStore, sPowersOfBeta>>

\* limitedBuffer.String.
String(b) == b.buf

\* strings.Split(s, "\n") and strings.Join(lines, "\n").
RECURSIVE SplitLines(_)
SplitLines(s) ==
    LET i == Index(s, sNewline)
    IN  IF i < 0 THEN <<s>>
        ELSE <<SubSeq(s, 1, i)>> \o SplitLines(SubSeq(s, i + 2, Len(s)))

RECURSIVE JoinLines(_)
JoinLines(lines) ==
    IF Len(lines) = 0 THEN <<>>
    ELSE IF Len(lines) = 1 THEN lines[1]
    ELSE lines[1] \o sNewline \o JoinLines(Tail(lines))

\* utils.FilterLines: the lines of s that contain none of the excluded texts.
FilterLines(s, excluded) ==
    LET keep(l) == \A i \in DOMAIN excluded : ~Contains(l, excluded[i])
    IN  JoinLines(SelectSeq(SplitLines(s), keep))

\* clipToLimit that keeps the whole text.
clipToLimitKeepAll(val, limit) == [val |-> val, truncated |-> FALSE]

clipToLimit(val, limit) ==
    IF limit <= 0 \/ Len(val) <= limit
    THEN [val |-> val, truncated |-> FALSE]
    ELSE [val |-> SubSeq(val, Len(val) - limit + 1, Len(val)), truncated |-> TRUE]

\* The errors cmd.Run returns: nil, an *exec.ExitError carrying the wait
\* status of the process, or another error (the launch failed, or the
\* context's error).
ErrNil == [kind |-> "nil", msg |-> <<>>, exited |-> FALSE, status |-> 0]
ExitError(status) ==
    [kind |-> "ExitError", msg |-> sExitStatus1, exited |-> TRUE, status |-> status]
SignalError ==
    [kind |-> "ExitError", msg |-> sSignalKilled, exited |-> FALSE, status |-> 9]
StartError == [kind |-> "other", msg |-> sExecNotFound, exited |-> FALSE, status |-> 0]
CtxError == [kind |-> "other", msg |-> sContextCanceled, exited |-> FALSE, status |-> 0]

\* syscall.WaitStatus.ExitStatus: -1 unless the process exited.
ExitStatus(e) == IF e.exited THEN e.status ELSE -1

exitCodeFromError(runErr) ==
    IF runErr.kind = "ExitError" THEN ExitStatus(runErr) ELSE 1

appendError(stderr, runErr, limit) ==
    LET msg == runErr.msg
    IN  IF stderr = <<>> THEN clipToLimit(msg, limit)
        ELSE IF Contains(stderr, msg) THEN [val |-> stderr, truncated |-> FALSE]
        ELSE clipToLimit(stderr \o sNewline \o msg, limit)

\* The Result of a failed os.MkdirAll reported as a success.
mkdirResultSwallowed(limit) ==
    [ExitCode |-> 0, Stdout |-> <<>>, Stderr |-> <<>>, Truncated |-> FALSE]

\* Lines 45-52: the Result of a Run whose working directory cannot be made.
mkdirResult(limit) ==
    LET c == clipToLimit(sMkdirDenied, limit)
    IN  [ExitCode |-> 1, Stdout |-> <<>>, Stderr |-> TrimSpace(c.val),
         Truncated |-> c.truncated]

\* Lines 62-80: the Result made from the two buffers and cmd.Run's error.
runResult(stdoutBuf, stderrBuf, runErr, limit) ==
    LET out == FilterLines(String(stdoutBuf), stdOutExcludedStrings)
        err == FilterLines(String(stderrBuf), stdErrExcludedStrings)
        tr  == stdoutBuf.Truncated \/ stderrBuf.Truncated
    IN  IF runErr.kind = "nil"
        THEN [ExitCode |-> 0, Stdout |-> out, Stderr |-> TrimSpace(err),
              Truncated |-> tr]
        ELSE LET ae == appendError(err, runErr, limit)
                 st == TrimSpace(ae.val)
             IN  [ExitCode  |-> exitCodeFromError(runErr),
                  Stdout    |-> out,
                  Stderr    |-> IF st = <<>> THEN runErr.msg ELSE st,
                  Truncated |-> tr \/ ae.truncated]

\* Lines 37-39: the cap Run works with.
\* The cap taken as configured, without the default.
maxOutputBytesAsGiven(n) == n

maxOutputBytes(n) == IF n <= 0 THEN defaultMaxOutputBytes ELSE n

(***************************************************************************)
(* The specification of one Run.  exec.CommandContext gives the command    *)
(* no process group and no WaitDelay: when the context ends os/exec kills  *)
(* the direct child only, and cmd.Run returns when the child has been      *)
(* waited for and both copying goroutines have read end-of-file, which a   *)
(* pipe gives once every process holding its write end has closed it.      *)
(***************************************************************************)
RunBytes == {"a", "\n"}
ExitCodes == {0, 1}
RunConfigs == [MaxOutputBytes : (-1)..MaxCap, WorkDir : {<<>>, sWorkdir}]

RunInit ==
    /\ HandlerIdle
    /\ BufIdle
    /\ RunIdle
    /\ FnIdle
    /\ CacheIdle
    /\ SdkIdle

\* Lines 36-58: Run is called; it fixes the cap, makes the working
\* directory and creates the two buffers.
RunCall ==
    /\ runPc = "idle"
    /\ \E c \in RunConfigs, mkdirOk \in BOOLEAN :
          LET limit == maxOutputBytes(c.MaxOutputBytes)
          IN  /\ rcfg' = c
              /\ rcap' = limit
              /\ IF c.WorkDir # <<>> /\ ~mkdirOk
                 THEN /\ runPc' = "returned"
                      /\ res' = mkdirResult(limit)
                      /\ UNCHANGED rbuf
                 ELSE /\ runPc' = "start"
                      /\ rbuf' = [s \in Streams |-> newLimitedBuffer(limit)]
                      /\ UNCHANGED res
    /\ UNCHANGED <<cacheVars, sdk, handlerVars, bufVars, fnVars, ctxDone, child, killSent, childCode, desc,
                   pipe, copier, wrote>>

\* Line 60, cmd.Run's Start: it refuses when the context has ended, it can
\* fail to launch the binary, or the child runs with a copying goroutine
\* for each stream.
CmdStart ==
    /\ runPc = "start"
    /\ \/ /\ ctxDone
          /\ runPc' = "returned"
          /\ res' = runResult(rbuf["stdout"], rbuf["stderr"], CtxError, rcap)
          /\ UNCHANGED <<child, copier>>
       \/ /\ ~ctxDone
          /\ runPc' = "returned"
          /\ res' = runResult(rbuf["stdout"], rbuf["stderr"], StartError, rcap)
          /\ UNCHANGED <<child, copier>>
       \/ /\ ~ctxDone
          /\ runPc' = "wait"
          /\ child' = "running"
          /\ copier' = [s \in Streams |-> "copying"]
          /\ UNCHANGED res
    /\ UNCHANGED <<cacheVars, sdk, handlerVars, bufVars, fnVars, rcfg, rcap, ctxDone, killSent, childCode, desc,
                   pipe, rbuf, wrote>>

\* The child writes a byte to one of its streams; the write blocks while
\* that stream's pipe is full.
ChildWrite ==
    /\ child = "running"
    /\ Len(wrote["stdout"]) + Len(wrote["stderr"]) < MaxOut
    /\ \E s \in Streams, b \in RunBytes :
          /\ Len(pipe[s]) < PipeCap
          /\ pipe' = [pipe EXCEPT ![s] = Append(@, b)]
          /\ wrote' = [wrote EXCEPT ![s] = Append(@, b)]
    /\ UNCHANGED <<cacheVars, sdk, handlerVars, bufVars, fnVars, runPc, rcfg, rcap, ctxDone, child, killSent,
                   childCode, desc, copier, rbuf, res>>

\* The child spawns a process, which inherits both output pipes.
ChildFork ==
    /\ child = "running"
    /\ desc = "none"
    /\ desc' = "holding"
    /\ UNCHANGED <<cacheVars, sdk, handlerVars, bufVars, fnVars, runPc, rcfg, rcap, ctxDone, child, killSent,
                   childCode, pipe, copier, rbuf, wrote, res>>

\* The child exits by itself.
ChildExit ==
    /\ child = "running"
    /\ child' = "exited"
    /\ \E c \in ExitCodes : childCode' = c
    /\ UNCHANGED <<cacheVars, sdk, handlerVars, bufVars, fnVars, runPc, rcfg, rcap, ctxDone, killSent, desc,
                   pipe, copier, rbuf, wrote, res>>

\* The child dies from a signal that Run did not send (a fault, the
\* kernel's out-of-memory killer, another process).
ChildSignalled ==
    /\ child = "running"
    /\ child' = "signalled"
    /\ UNCHANGED <<cacheVars, sdk, handlerVars, bufVars, fnVars, runPc, rcfg, rcap, ctxDone, killSent, childCode,
                   desc, pipe, copier, rbuf, wrote, res>>

\* The spawned process closes the pipes it inherited, or exits.
DescRelease ==
    /\ desc = "holding"
    /\ desc' = "detached"
    /\ UNCHANGED <<cacheVars, sdk, handlerVars, bufVars, fnVars, runPc, rcfg, rcap, ctxDone, child, killSent,
                   childCode, pipe, copier, rbuf, wrote, res>>

DescExit ==
    /\ desc \in {"holding", "detached"}
    /\ desc' = "exited"
    /\ UNCHANGED <<cacheVars, sdk, handlerVars, bufVars, fnVars, runPc, rcfg, rcap, ctxDone, child, killSent,
                   childCode, pipe, copier, rbuf, wrote, res>>

\* The caller's context ends (its deadline passes or it is cancelled)
\* while Run is at work.
CtxCancel ==
    /\ runPc \in {"start", "wait"}
    /\ ~ctxDone
    /\ ctxDone' = TRUE
    /\ UNCHANGED <<cacheVars, sdk, handlerVars, bufVars, fnVars, runPc, rcfg, rcap, child, killSent, childCode,
                   desc, pipe, copier, rbuf, wrote, res>>

\* os/exec answers the context's end with Process.Kill: the signal goes to
\* the direct child, running or exited and not yet waited for.
Kill ==
    /\ runPc = "wait"
    /\ ctxDone
    /\ ~killSent
    /\ child \in {"running", "exited"}
    /\ killSent' = TRUE
    /\ child' = IF child = "running" THEN "killed" ELSE child
    /\ UNCHANGED <<cacheVars, sdk, handlerVars, bufVars, fnVars, runPc, rcfg, rcap, ctxDone, childCode, desc,
                   pipe, copier, rbuf, wrote, res>>

\* A copying goroutine reads what its pipe holds and writes it to its buffer.
CopyStream(s) ==
    /\ copier[s] = "copying"
    /\ pipe[s] # <<>>
    /\ rbuf' = [rbuf EXCEPT ![s] = Write(@, pipe[s]).b]
    /\ pipe' = [pipe EXCEPT ![s] = <<>>]
    /\ UNCHANGED <<cacheVars, sdk, handlerVars, bufVars, fnVars, runPc, rcfg, rcap, ctxDone, child, killSent,
                   childCode, desc, copier, wrote, res>>

Copy == \E s \in Streams : CopyStream(s)

\* A copying goroutine ends at end-of-file: its pipe is empty and no
\* process has the write end open.
CopyEOFStream(s) ==
    /\ copier[s] = "copying"
    /\ pipe[s] = <<>>
    /\ child # "running"
    /\ desc # "holding"
    /\ copier' = [copier EXCEPT ![s] = "done"]
    /\ UNCHANGED <<cacheVars, sdk, handlerVars, bufVars, fnVars, runPc, rcfg, rcap, ctxDone, child, killSent,
                   childCode, desc, pipe, rbuf, wrote, res>>

CopyEOF == \E s \in Streams : CopyEOFStream(s)

\* cmd.Wait returning as soon as the child is gone, without the goroutines.
WaitDoneChildOnly == child \in {"exited", "killed", "signalled"}

\* cmd.Wait can return: the child has been waited for and both copying
\* goroutines have ended.
WaitDone ==
    /\ child \in {"exited", "killed", "signalled"}
    /\ \A s \in Streams : copier[s] = "done"

\* The error cmd.Run returns for a child that ran.
waitErr ==
    IF child \in {"killed", "signalled"} THEN SignalError
    ELSE IF childCode # 0 THEN ExitError(childCode)
    ELSE IF killSent THEN CtxError
    ELSE ErrNil

\* Lines 60-80: cmd.Run returns and Run makes its Result.
WaitReturn ==
    /\ runPc = "wait"
    /\ WaitDone
    /\ runPc' = "returned"
    /\ res' = runResult(rbuf["stdout"], rbuf["stderr"], waitErr, rcap)
    /\ UNCHANGED <<cacheVars, sdk, handlerVars, bufVars, fnVars, rcfg, rcap, ctxDone, child, killSent, childCode,
                   desc, pipe, copier, rbuf, wrote>>

RunNext ==
    \/ RunCall
    \/ CmdStart
    \/ ChildWrite
    \/ ChildFork
    \/ ChildExit
    \/ ChildSignalled
    \/ DescRelease
    \/ DescExit
    \/ CtxCancel
    \/ Kill
    \/ Copy
    \/ CopyEOF
    \/ WaitReturn

RunSpec == RunInit /\ [][RunNext]_vars

\* Run's own steps and os/exec's goroutines are scheduled fairly; the
\* child, the process it spawns and the caller's context are left free.
FairRunSpec ==
    /\ RunInit
    /\ [][RunNext]_vars
    /\ WF_vars(CmdStart)
    /\ WF_vars(Kill)
    /\ \A s \in Streams : WF_vars(CopyStream(s)) /\ WF_vars(CopyEOFStream(s))
    /\ WF_vars(WaitReturn)

\* Run has returned from a child that was started.
ReturnedFromChild == runPc = "returned" /\ child \in {"exited", "killed", "signalled"}

\* t is a suffix of s.
IsSuffix(t, s) == Len(t) <= Len(s) /\ t = LastN(s, Len(t))

(***************************************************************************)
(* C5: when the child writes more than N bytes to a stream (N the          *)
(* effective cap), the string returned for that stream has length at most  *)
(* N, is a suffix of the bytes the child wrote, and Result.Truncated is    *)
(* true.                                                                   *)
(***************************************************************************)
C5_TailTruncation ==
    ReturnedFromChild =>
        /\ Len(wrote["stdout"]) > rcap =>
              /\ Len(res.Stdout) <= rcap
              /\ IsSuffix(res.Stdout, wrote["stdout"])
              /\ res.Truncated
        /\ Len(wrote["stderr"]) > rcap =>
              /\ Len(res.Stderr) <= rcap
              /\ IsSuffix(res.Stderr, wrote["stderr"])
              /\ res.Truncated

(***************************************************************************)
(* C7: when the deadline passes before the child exits, Run kills the      *)
(* child, returns only once it has exited, and returns an outcome with     *)
(* timed-out = true and exit code 124.                                     *)
(***************************************************************************)
C7_DeadlineOutcome ==
    (runPc = "returned" /\ child = "killed") =>
        /\ "TimedOut" \in DOMAIN res
        /\ res.ExitCode = 124

(***************************************************************************)
(* C8: the child runs in its own process group and a deadline expiry       *)
(* terminates the whole group: once Run has returned from a deadline       *)
(* expiry, neither the child nor a process descended from it is running.   *)
(***************************************************************************)
C8_NoDescendantOutlivesDeadline ==
    (runPc = "returned" /\ killSent) =>
        /\ child # "running"
        /\ desc \notin {"holding", "detached"}

(***************************************************************************)
(* C9: Run never blocks indefinitely: whatever the child and the           *)
(* processes it spawns do, once the child has exited or the caller's       *)
(* context has ended, Run eventually returns its Result.                   *)
(***************************************************************************)
C9_RunEventuallyReturns ==
    (runPc \in {"start", "wait"} /\ (child \in {"exited", "killed", "signalled"} \/ ctxDone))
        ~> (runPc = "returned")

LaunchFailed ==
    /\ runPc = "returned"
    /\ child = "none"
    /\ rbuf["stdout"].Limit = rcap
    /\ rcap > 0

\* The error of a failed launch.
launchErr == IF ctxDone THEN CtxError ELSE StartError

(***************************************************************************)
(* C11: Run's exit code is 0 when the process ran and exited               *)
(* successfully, the process's exit status when it exited with a non-zero  *)
(* status, and 1, with the launch error text appended to the captured      *)
(* stderr, when the process failed to start or left no exit status (it     *)
(* died from a signal).  The deadline's own kill is left out: C7 covers it.*)
(***************************************************************************)
C11_ExitCodeMapping ==
    /\ (runPc = "returned" /\ child = "exited" /\ childCode = 0) => res.ExitCode = 0
    /\ (runPc = "returned" /\ child = "exited" /\ childCode # 0)
          => res.ExitCode = childCode
    /\ (runPc = "returned" /\ child = "signalled") => res.ExitCode = 1
    /\ LaunchFailed =>
          /\ res.ExitCode = 1
          /\ res.Stderr = TrimSpace(clipToLimit(launchErr.msg, rcap).val)


(***************************************************************************)
(* The specification of the pipeline's helper functions: a token list is   *)
(* drawn, and the helpers are applied to it.                               *)
(***************************************************************************)
FnTokens == {sExecute, sExecuteMixed, sDashDash, sKFlag, sEndpointEq, sTarget,
             sTargetMixed, sUrl, sBlank, sTargetBlankAction, sSlashFirst}
FnArgLists == SeqsUpTo(FnTokens, MaxTokens)

FnInit ==
    /\ HandlerIdle
    /\ BufIdle
    /\ RunIdle
    /\ fnArgs \in FnArgLists
    /\ fnOut = FnNone
    /\ CacheIdle
    /\ SdkIdle

CallFirstSubcommand ==
    /\ fnOut.op = "none"
    /\ LET r == firstSubcommand(fnArgs)
       IN  fnOut' = [FnNone EXCEPT !.op = "firstSubcommand", !.sub = r.sub, !.err = r.err]
    /\ UNCHANGED <<cacheVars, sdk, handlerVars, bufVars, runVars, fnArgs>>

CallExtractExecuteContract ==
    /\ fnOut.op = "none"
    /\ LET r == extractExecuteContract(fnArgs)
       IN  fnOut' = [FnNone EXCEPT !.op = "extractExecuteContract",
                                   !.contract = r.contract, !.method = r.method]
    /\ UNCHANGED <<cacheVars, sdk, handlerVars, bufVars, runVars, fnArgs>>

\* The names under which each injected flag counts as present.
FlagNames(flag) ==
    IF flag = sPrivateKeyFlag THEN {sPrivateKeyFlag, sKFlag} ELSE {flag}

\* The two injections of the handler: the flag and the value it comes with.
Injections == {<<sEndpointFlag, sRpcBare>>, <<sPrivateKeyFlag, sKey>>}

\* The injection step applied once, and once more to its own result.
CallInjectIfAbsent ==
    /\ fnOut.op = "none"
    /\ \E inj \in Injections :
          LET flag  == inj[1]
              value == inj[2]
              once  == injectIfAbsent(fnArgs, FlagNames(flag), sExecute, flag, value)
          IN  fnOut' = [FnNone EXCEPT
                          !.op = "injectIfAbsent", !.flag = flag, !.value = value,
                          !.once = once,
                          !.twice = injectIfAbsent(once, FlagNames(flag), sExecute,
                                                   flag, value)]
    /\ UNCHANGED <<cacheVars, sdk, handlerVars, bufVars, runVars, fnArgs>>

\* The handler's two injections (lines 216-226 and 237-243) under a
\* configuration, applied to the token list and once more to the result.
handlerInjection(cfg, args) == injectPrivateKey(cfg, contractsLoop(cfg, 1, {}, args).args)

CallHandlerInjection ==
    /\ fnOut.op = "none"
    /\ \E cfg \in Configs :
          LET once == handlerInjection(cfg, fnArgs)
          IN  fnOut' = [FnNone EXCEPT !.op = "handlerInjection", !.once = once,
                                      !.twice = handlerInjection(cfg, once)]
    /\ UNCHANGED <<cacheVars, sdk, handlerVars, bufVars, runVars, fnArgs>>

\* injectFlagValueAfterSubcommand, called as the handler calls it: with the
\* subcommand firstSubcommand found, or with "execute".
CallInjectFlagValue ==
    /\ fnOut.op = "none"
    /\ \E subcmd \in {firstSubcommand(fnArgs).sub, sExecute}, inj \in Injections :
          fnOut' = [FnNone EXCEPT
                      !.op = "injectFlagValueAfterSubcommand",
                      !.sub = subcmd, !.flag = inj[1], !.value = inj[2],
                      !.once = injectFlagValueAfterSubcommand(fnArgs, subcmd,
                                                              inj[1], inj[2])]
    /\ UNCHANGED <<cacheVars, sdk, handlerVars, bufVars, runVars, fnArgs>>

FnNext ==
    \/ CallFirstSubcommand
    \/ CallInjectFlagValue
    \/ CallInjectIfAbsent
    \/ CallHandlerInjection
    \/ CallExtractExecuteContract

FnSpec == FnInit /\ [][FnNext]_vars

\* Token i of args is skipped by firstSubcommand's flag-skipping: it begins
\* with "-" and no "--" comes before it.
FlagSkipped(args, i) ==
    /\ HasPrefix(args[i], sDash)
    /\ \A j \in 1..(i - 1) : args[j] # sDashDash

(***************************************************************************)
(* C12: firstSubcommand returns the lower-cased first non-blank token that *)
(* flag-skipping does not skip (tokens beginning with "-" are skipped      *)
(* until the first "--", which is skipped too and ends the skipping); the  *)
(* empty subcommand, without error, if no token qualifies; an error        *)
(* exactly when the token list is empty.                                   *)
(***************************************************************************)
C12_FirstSubcommand ==
    fnOut.op = "firstSubcommand" =>
        LET q == {i \in 1..Len(fnArgs) :
                     ~FlagSkipped(fnArgs, i) /\ TrimSpace(fnArgs[i]) # <<>>}
        IN  /\ fnOut.err <=> (fnArgs = <<>>)
            /\ q # {} => fnOut.sub = ToLower(fnArgs[SetMin(q)])
            /\ q = {} => fnOut.sub = <<>>

\* C12 witness: a flag, then "--", then a token beginning with "-", which
\* is the subcommand since the skipping has ended.
C12_Witness ==
    /\ fnOut.op = "firstSubcommand"
    /\ Len(fnArgs) = 3
    /\ fnArgs[1] = sKFlag /\ fnArgs[2] = sDashDash /\ fnArgs[3] = sKFlag
    /\ fnOut.sub = sKFlag

\* A token that holds a target reference: it does not begin with "-", is
\* not blank, holds no "://", and its first "/" has text on both sides.
IsTargetToken(tok) ==
    /\ ~HasPrefix(tok, sDash)
    /\ TrimSpace(tok) # <<>>
    /\ ~Contains(tok, sSchemeSep)
    /\ Index(tok, sSlash) > 0
    /\ Index(tok, sSlash) < Len(tok) - 1

(***************************************************************************)
(* C13: extractExecuteContract returns the reference of the first token    *)
(* that does not begin with "-", is not blank, holds no "://" and has a    *)
(* "/" with text on both sides, split at its first "/" into (namespace,    *)
(* action), both lower-cased; the reference is empty only when no token    *)
(* is such a token; a non-empty namespace comes with a non-empty action.   *)
(***************************************************************************)
C13_ExtractExecuteContract ==
    fnOut.op = "extractExecuteContract" =>
        LET q == {i \in 1..Len(fnArgs) : IsTargetToken(fnArgs[i])}
        IN  /\ q # {} =>
                  LET tok == fnArgs[SetMin(q)]
                      at  == Index(tok, sSlash)
                  IN  /\ fnOut.contract = ToLower(SubSeq(tok, 1, at))
                      /\ fnOut.method = ToLower(SubSeq(tok, at + 2, Len(tok)))
            /\ (fnOut.contract = <<>> /\ fnOut.method = <<>>) => q = {}
            /\ fnOut.contract # <<>> => fnOut.method # <<>>

\* The number of tokens of args equal to tok.
Count(args, tok) == Cardinality({i \in 1..Len(args) : args[i] = tok})

(***************************************************************************)
(* C14: flag injection (nothing when the flag is present as a token or as  *)
(* a "flag=" prefix, the splice otherwise) is idempotent: applied a second *)
(* time with the same flag and value it gives the list the first gave; so  *)
(* the handler inserts each of --endpoint and --private-key at most once   *)
(* per request, however many entries the namespace allow-list has.         *)
(***************************************************************************)
C14_InjectionIdempotent ==
    /\ fnOut.op = "injectIfAbsent" =>
          /\ fnOut.twice = fnOut.once
          /\ hasAnyFlag(fnArgs, FlagNames(fnOut.flag)) => fnOut.once = fnArgs
          /\ ~hasAnyFlag(fnArgs, FlagNames(fnOut.flag)) =>
                /\ Len(fnOut.once) = Len(fnArgs) + 2
                /\ Count(fnOut.once, fnOut.flag) = 1
    /\ fnOut.op = "handlerInjection" =>
          /\ fnOut.twice = fnOut.once
          /\ \A flag \in {sEndpointFlag, sPrivateKeyFlag} :
                Count(fnOut.once, flag) <= Count(fnArgs, flag) + 1
          /\ Len(fnOut.once) <= Len(fnArgs) + 4

\* C14 witness: the handler injected the endpoint once under the
\* configuration whose namespace allow-list has two entries (the one whose
\* endpoint is "rpc/v1").
C14_Witness ==
    /\ fnOut.op = "handlerInjection"
    /\ fnArgs # <<>> /\ fnArgs[1] = sExecute
    /\ Count(fnOut.once, sEndpointFlag) = 1
    /\ Count(fnOut.once, sRpcBare) = 1

\* s without its elements i and i + 1.
RemoveTwo(s, i) == SubSeq(s, 1, i - 1) \o SubSeq(s, i + 2, Len(s))

(***************************************************************************)
(* C15: injectFlagValueAfterSubcommand returns args[0..i] ++ [flag, value] *)
(* ++ args[i+1..], i being the index of the subcommand token (the token    *)
(* firstSubcommand classifies), or [flag, value] ++ args when there is no  *)
(* subcommand token: two tokens longer, and args again, in order, once the *)
(* two inserted tokens are removed.                                        *)
(***************************************************************************)
C15_InjectionFrame ==
    fnOut.op = "injectFlagValueAfterSubcommand" =>
        LET hit == {i \in 1..Len(fnArgs) :
                       ~FlagSkipped(fnArgs, i) /\ EqualFold(fnArgs[i], fnOut.sub)}
            q   == {i \in 1..Len(fnArgs) :
                       ~FlagSkipped(fnArgs, i) /\ TrimSpace(fnArgs[i]) # <<>>}
            at  == IF hit = {} THEN 0 ELSE SetMin(hit)
        IN  /\ fnOut.once = SubSeq(fnArgs, 1, at) \o <<fnOut.flag, fnOut.value>>
                               \o SubSeq(fnArgs, at + 1, Len(fnArgs))
            /\ Len(fnOut.once) = Len(fnArgs) + 2
            /\ RemoveTwo(fnOut.once, at + 1) = fnArgs
            /\ (fnOut.sub = firstSubcommand(fnArgs).sub /\ q # {}) => at = SetMin(q)
            /\ (fnOut.sub = firstSubcommand(fnArgs).sub /\ q = {}) => at = 0

\* C15 witness: the subcommand, written in mixed case, comes after a flag
\* and the two tokens were spliced in behind it, before the target.
C15_Witness ==
    /\ fnOut.op = "injectFlagValueAfterSubcommand"
    /\ fnArgs = <<sKFlag, sExecuteMixed, sTarget>>
    /\ fnOut.once = <<sKFlag, sExecuteMixed, sEndpointFlag, sRpcBare, sTarget>>

\* The argument list handed to executor.Run by the last invocation.
RunArgs == runCalls[1].Args

\* args holds flag immediately followed by value.
HasFlagValue(args, flag, value) ==
    \E i \in 1..(Len(args) - 1) : args[i] = flag /\ args[i + 1] = value

ArgsBeforeKey == contractsLoop(cfgEnv, 1, {}, ReqArgs).args

\* The configured private key: the first non-blank of the two variables.
ConfiguredKey == firstNonEmpty(<<cfgEnv.LeoPrivateKey, cfgEnv.WalletPrivateKey>>)

\* The index of the token firstSubcommand classifies in the request's tokens.
SubcommandAt ==
    SetMin({i \in 1..Len(ReqArgs) :
               ~FlagSkipped(ReqArgs, i) /\ TrimSpace(ReqArgs[i]) # <<>>})

HasArgs == Len(req.args) > 0
HasCmd == req.cmd.words # <<>>

(***************************************************************************)
(* C18: a POST payload is accepted only with exactly one of args and cmd:  *)
(* the request is rejected with 400, and no process is run, when both are  *)
(* supplied, when neither is, when the body is not valid JSON (or not      *)
(* valid base64 when flagged as encoded), and when the shell tokenization  *)
(* of cmd fails.                                                           *)
(***************************************************************************)
C18_PostPayloadRejected ==
    (/\ Invoked /\ env.cfgOk /\ req.method = "POST"
     /\ \/ req.body # "ok"
        \/ HasArgs /\ HasCmd
        \/ ~HasArgs /\ ~HasCmd
        \/ HasCmd /\ req.cmd.bad)
        => (resp.status = StatusBadRequest /\ ~RanProcess)

\* The namespace of the target reference among the tokens the client sent.
ReqNamespace == extractExecuteContract(ReqArgs).contract

\* The causes of each status, on the request as the client sent it.
PayloadMalformed == env.cfgOk /\ ReqParsed.err
TokenListEmpty == env.cfgOk /\ ~ReqParsed.err /\ ReqArgs = <<>>
TargetMissing == ReachedTargetCheck /\ ReqNamespace = <<>>
SubcommandDenied ==
    ReachedSubcommandCheck /\ subcommandCheck(allowedCommands(cfgEnv), ReqSubcommand) # 0
NamespaceDenied ==
    ReachedTargetCheck /\ ReqNamespace # <<>> /\ ReqNamespace \notin AllowedNamespaces
ExecutedSuccessfully == RanProcess /\ env.res.ExitCode = 0 /\ ~env.res.TimedOut
InternalFailure ==
    \/ ~env.cfgOk
    \/ mkdirCalls # <<>> /\ ~env.mkdirOk
    \/ RanProcess /\ (env.res.ExitCode # 0 \/ env.res.TimedOut)

(***************************************************************************)
(* C19: the response status is always one of 200, 400, 403, 500, and: 200  *)
(* exactly for a request that was executed successfully; 400 for a         *)
(* malformed payload, an empty token list or a required target reference   *)
(* that is missing; 403 for a subcommand or a namespace denied by an       *)
(* allow-list; 500 for a configuration or internal failure.                *)
(***************************************************************************)
C19_StatusMapping ==
    Invoked =>
        /\ resp.status \in {StatusOK, StatusBadRequest, StatusForbidden,
                            StatusInternalServerError}
        /\ resp.status = StatusOK <=> ExecutedSuccessfully
        /\ (PayloadMalformed \/ TokenListEmpty \/ TargetMissing)
              => resp.status = StatusBadRequest
        /\ (SubcommandDenied \/ NamespaceDenied) => resp.status = StatusForbidden
        /\ ~env.cfgOk => resp.status = StatusInternalServerError
        /\ resp.status = StatusBadRequest
              => (PayloadMalformed \/ TokenListEmpty \/ TargetMissing)
        /\ resp.status = StatusForbidden => (SubcommandDenied \/ NamespaceDenied)
        /\ resp.status = StatusInternalServerError => InternalFailure

\* Parsing, classification and the allow-list checks, as the handler makes
\* them, have all succeeded.
ChecksPassed ==
    /\ env.cfgOk
    /\ ~ReqParsed.err
    /\ ~firstSubcommand(ReqArgs).err
    /\ ~SubcommandDenied
    /\ ReqSubcommand = sExecute => contractCheck(AllowedNamespaces, ArgsBeforeKey) = 0

\* Run's position only moves forward.
RunRank(pc) ==
    IF pc = "idle" THEN 0 ELSE IF pc = "start" THEN 1 ELSE IF pc = "wait" THEN 2 ELSE 3

\* Within one call of Run the subprocess is started at most once: the child
\* comes into being only in the step that leaves cmd.Run's Start, and Run
\* never comes back to that step.
StartsAtMostOnce ==
    [][/\ RunRank(runPc') >= RunRank(runPc)
       /\ (child = "none" /\ child' # "none") => (runPc = "start" /\ runPc' = "wait")
       /\ child # "none" => child' # "none"]_vars

MkdirFailed == runPc = "returned" /\ rbuf["stdout"].Limit = 0

(***************************************************************************)
(* C21: if Run cannot create the working directory it returns a Result     *)
(* with exit code 1 and the creation error text in stderr, and the         *)
(* subprocess is never started; an empty working directory skips the       *)
(* creation, so Run goes on to start the process.                          *)
(***************************************************************************)
C21_MkdirFailure ==
    /\ MkdirFailed =>
          /\ res.ExitCode = 1
          /\ res.Stderr = TrimSpace(clipToLimit(sMkdirDenied, rcap).val)
          /\ res.Stderr # <<>>
          /\ res.Stdout = <<>>
          /\ child = "none" /\ copier = [s \in Streams |-> "none"]
          /\ rcfg.WorkDir # <<>>
    /\ (runPc # "idle" /\ rcfg.WorkDir = <<>>) => rbuf["stdout"].Limit = rcap

\* C21 witness: the directory could not be made under the default cap, and
\* stderr is the whole error text.
C21_Witness ==
    /\ MkdirFailed
    /\ rcfg.MaxOutputBytes = 0
    /\ res.Stderr = sMkdirDenied

(***************************************************************************)
(* The configuration cache: init() fills it under cfgMu.Lock, and          *)
(* currentConfig copies it under cfgMu.RLock.  A struct assignment is not  *)
(* atomic: the two words of an EnvConfig are written, and read, one after  *)
(* the other.                                                              *)
(***************************************************************************)
otherVars == <<handlerVars, bufVars, runVars, fnVars, sdk>>

\* sync.RWMutex: when Lock and RLock can be taken.
CanLock(mu) == ~mu.writer /\ mu.readers = 0
\* An RLock that does not wait for the writer.
CanRLockAlways(mu) == TRUE
CanRLock(mu) == ~mu.writer

\* loadEnvConfig: the configuration parsed from the environment, or an error.
loadEnvConfig(parses) ==
    IF parses THEN [kind |-> "fresh", c |-> WrittenCfg] ELSE [kind |-> "err", c |-> ZeroCfg]

CacheInit ==
    /\ HandlerIdle
    /\ BufIdle
    /\ RunIdle
    /\ FnIdle
    /\ CacheIdle
    /\ SdkIdle

\* Line 76: init() parses the environment; on error the cache stays empty.
InitLoad ==
    /\ initPc = "load"
    /\ \E parses \in BOOLEAN : initPc' = IF parses THEN "lock" ELSE "done"
    /\ UNCHANGED <<otherVars, cachedCfg, cachedCfgOk, cfgMu, rd>>

\* Line 77.
InitLock ==
    /\ initPc = "lock"
    /\ CanLock(cfgMu)
    /\ cfgMu' = [cfgMu EXCEPT !.writer = TRUE]
    /\ initPc' = "writeCfg1"
    /\ UNCHANGED <<otherVars, cachedCfg, cachedCfgOk, rd>>

\* Line 78, cachedCfg = c: one word, then the other.
InitWriteCfg ==
    /\ \/ /\ initPc = "writeCfg1"
          /\ cachedCfg' = <<WrittenCfg[1], cachedCfg[2]>>
          /\ initPc' = "writeCfg2"
       \/ /\ initPc = "writeCfg2"
          /\ cachedCfg' = <<cachedCfg[1], WrittenCfg[2]>>
          /\ initPc' = "writeOk"
    /\ UNCHANGED <<otherVars, cachedCfgOk, cfgMu, rd>>

\* Line 79.
InitWriteOk ==
    /\ initPc = "writeOk"
    /\ cachedCfgOk' = TRUE
    /\ initPc' = "unlock"
    /\ UNCHANGED <<otherVars, cachedCfg, cfgMu, rd>>

\* Line 80.
InitUnlock ==
    /\ initPc = "unlock"
    /\ cfgMu' = [cfgMu EXCEPT !.writer = FALSE]
    /\ initPc' = "done"
    /\ UNCHANGED <<otherVars, cachedCfg, cachedCfgOk, rd>>

\* Lines 87-90: currentConfig is called; with CONFIG_RELOAD_EACH_INVOCATION
\* set it parses afresh and returns.
ConfigCall(r) ==
    /\ rd[r].pc = "idle"
    /\ \E reload \in BOOLEAN, parses \in BOOLEAN :
          rd' = [rd EXCEPT ![r] =
                    IF reload
                    THEN [ReaderIdle EXCEPT !.pc = "done", !.ret = loadEnvConfig(parses)]
                    ELSE [ReaderIdle EXCEPT !.pc = "rlock"]]
    /\ UNCHANGED <<otherVars, cachedCfg, cachedCfgOk, cfgMu, initPc>>

\* Line 90.
ConfigRLock(r) ==
    /\ rd[r].pc = "rlock"
    /\ CanRLock(cfgMu)
    /\ cfgMu' = [cfgMu EXCEPT !.readers = @ + 1]
    /\ rd' = [rd EXCEPT ![r].pc = "readCfg1"]
    /\ UNCHANGED <<otherVars, cachedCfg, cachedCfgOk, initPc>>

\* Line 91, c := cachedCfg: one word, then the other.
ConfigReadCfg(r) ==
    /\ \/ /\ rd[r].pc = "readCfg1"
          /\ rd' = [rd EXCEPT ![r].c = <<cachedCfg[1], @[2]>>, ![r].pc = "readCfg2"]
       \/ /\ rd[r].pc = "readCfg2"
          /\ rd' = [rd EXCEPT ![r].c = <<@[1], cachedCfg[2]>>, ![r].pc = "readOk"]
    /\ UNCHANGED <<otherVars, cachedCfg, cachedCfgOk, cfgMu, initPc>>

\* Line 92.
ConfigReadOk(r) ==
    /\ rd[r].pc = "readOk"
    /\ rd' = [rd EXCEPT ![r].ok = cachedCfgOk, ![r].pc = "runlock"]
    /\ UNCHANGED <<otherVars, cachedCfg, cachedCfgOk, cfgMu, initPc>>

\* Line 93.
ConfigRUnlock(r) ==
    /\ rd[r].pc = "runlock"
    /\ cfgMu' = [cfgMu EXCEPT !.readers = @ - 1]
    /\ rd' = [rd EXCEPT ![r].pc = "decide"]
    /\ UNCHANGED <<otherVars, cachedCfg, cachedCfgOk, initPc>>

\* Lines 94-98: the copy when it was marked valid, a fresh parse otherwise.
ConfigDecide(r) ==
    /\ rd[r].pc = "decide"
    /\ \E parses \in BOOLEAN :
          rd' = [rd EXCEPT ![r].pc = "done",
                           ![r].ret = IF rd[r].ok
                                      THEN [kind |-> "cached", c |-> rd[r].c]
                                      ELSE loadEnvConfig(parses)]
    /\ UNCHANGED <<otherVars, cachedCfg, cachedCfgOk, cfgMu, initPc>>

\* The caller has its configuration; the goroutine may call again.
ConfigReturn(r) ==
    /\ rd[r].pc = "done"
    /\ rd' = [rd EXCEPT ![r] = ReaderIdle]
    /\ UNCHANGED <<otherVars, cachedCfg, cachedCfgOk, cfgMu, initPc>>

CacheNext ==
    \/ InitLoad
    \/ InitLock
    \/ InitWriteCfg
    \/ InitWriteOk
    \/ InitUnlock
    \/ \E r \in Readers :
          \/ ConfigCall(r)
          \/ ConfigRLock(r)
          \/ ConfigReadCfg(r)
          \/ ConfigReadOk(r)
          \/ ConfigRUnlock(r)
          \/ ConfigDecide(r)
          \/ ConfigReturn(r)

CacheSpec == CacheInit /\ [][CacheNext]_vars

(***************************************************************************)
(* C22: readers of the configuration always see one complete snapshot: in  *)
(* every interleaving of currentConfig calls with the filling of the       *)
(* cache, a call returns the fully written cached configuration or a       *)
(* freshly parsed one (or the parse error), and never holds the cache as   *)
(* valid with a value that is not the written configuration.               *)
(***************************************************************************)
C22_CompleteSnapshot ==
    \A r \in Readers :
        /\ (rd[r].pc \in {"runlock", "decide"} /\ rd[r].ok) => rd[r].c = WrittenCfg
        /\ rd[r].pc = "done" =>
              /\ rd[r].ret.kind \in {"cached", "fresh", "err"}
              /\ rd[r].ret.kind \in {"cached", "fresh"} => rd[r].ret.c = WrittenCfg
        /\ (rd[r].pc \in {"readCfg1", "readCfg2", "readOk"})
              => (initPc \notin {"writeCfg1", "writeCfg2", "writeOk", "unlock"})

\* C22 witness: one call has returned the cached configuration while
\* another, which came before the cache was filled, parsed its own.
C22_Witness ==
    \E r, q \in Readers :
        /\ rd[r].pc = "done" /\ rd[r].ret.kind = "cached"
        /\ rd[q].pc = "done" /\ rd[q].ret.kind = "fresh" /\ ~rd[q].ok
        /\ initPc = "done"

\* What the handler does with the same request, configuration and
\* environment when only the dry-run toggle is flipped.
WithDryRunFlipped == handler(req, [cfgEnv EXCEPT !.DryRun = ~@], env)

(***************************************************************************)
(* C23: with the dry-run toggle on, the binary the handler runs is echo,   *)
(* never the configured executable; and the toggle changes nothing else:   *)
(* the same request is answered with the same status, rejected or not,     *)
(* and reaches os.MkdirAll and the runner with the same directory and      *)
(* the same argument list.                                                 *)
(***************************************************************************)
C23_DryRun ==
    Invoked =>
        /\ (RanProcess /\ cfgEnv.DryRun) =>
              /\ runCalls[1].BinPath = sEchoBin
              /\ runCalls[1].BinPath # cfgEnv.LeoBin
        /\ (RanProcess /\ ~cfgEnv.DryRun) => runCalls[1].BinPath = cfgEnv.LeoBin
        /\ WithDryRunFlipped.resp.status = resp.status
        /\ WithDryRunFlipped.mkdirCalls = mkdirCalls
        /\ Len(WithDryRunFlipped.runCalls) = Len(runCalls)
        /\ RanProcess =>
              /\ WithDryRunFlipped.runCalls[1].Args = RunArgs
              /\ WithDryRunFlipped.runCalls[1].WorkDir = runCalls[1].WorkDir
              /\ WithDryRunFlipped.runCalls[1].BinPath # runCalls[1].BinPath

\* C23 witness: under dry-run an execute request was run with echo, with
\* the arguments it is run with when dry-run is off.
C23_Witness ==
    /\ Invoked /\ cfgEnv.DryRun
    /\ RanProcess /\ runCalls[1].BinPath = sEchoBin /\ ReqSubcommand = sExecute
    /\ WithDryRunFlipped.runCalls[1].BinPath = sLeoBin
    /\ WithDryRunFlipped.runCalls[1].Args = RunArgs

(***************************************************************************)
(* C24: the output cap Run works with is always positive: a configured     *)
(* MaxOutputBytes that is zero or negative is replaced by the default of   *)
(* 65536 bytes before either capture buffer is created, so no capture      *)
(* buffer is ever unbounded.                                               *)
(***************************************************************************)
C24_CapPositive ==
    runPc # "idle" =>
        /\ rcap > 0
        /\ rcfg.MaxOutputBytes <= 0 => rcap = 65536
        /\ rcfg.MaxOutputBytes > 0 => rcap = rcfg.MaxOutputBytes
        /\ ~MkdirFailed =>
              \A s \in Streams : /\ rbuf[s].Limit = rcap
                                 /\ Len(rbuf[s].buf) <= rcap

\* C24 witness: a negative cap was configured, and the child has written
\* into a buffer bounded by the default.
C24_Witness ==
    /\ runPc = "wait"
    /\ rcfg.MaxOutputBytes < 0
    /\ rbuf["stdout"].Limit = defaultMaxOutputBytes
    /\ rbuf["stdout"].buf # <<>>

(***************************************************************************)
(* The SDK client: Invoke, validate and parseError.                        *)
(***************************************************************************)
\* The requests a caller hands to Invoke.
SdkRequests == [Args : {<<>>, <<sExecute>>}, Cmd : {<<>>, sBlank, sExecute}]

\* The statuses and bodies the endpoint answers with.  A body is its text
\* and what json.Unmarshal makes of it: whether it decodes, and its "error"
\* field (empty when absent).
Statuses == {100, 199, 200, 204, 299, 300, 400, 403, 500}
sBodyEmptyObject == <<"{","}">>
sBodyBlankError == <<" ","{","e",":"," ","}"," ">>
sBodyError == <<"{","e",":","n","o","}">>
sBodyPaddedError == <<"{","e",":"," ","n","o"," ","}">>
sBodyText == <<" ","o","o","p","s","\n">>
sErrNo == <<"n","o">>
sErrNoPadded == <<" ","n","o"," ">>
Bodies ==
    {[raw |-> sBodyEmptyObject,  json |-> TRUE,  error |-> <<>>],
     [raw |-> sBodyBlankError,   json |-> TRUE,  error |-> sBlank],
     [raw |-> sBodyError,        json |-> TRUE,  error |-> sErrNo],
     [raw |-> sBodyPaddedError,  json |-> TRUE,  error |-> sErrNoPadded],
     [raw |-> sBodyText,         json |-> FALSE, error |-> <<>>],
     [raw |-> <<>>,              json |-> FALSE, error |-> <<>>]}

\* validate that only asks for one of the two fields to be there.
validateNotBoth(r) == Len(r.Args) = 0 /\ TrimSpace(r.Cmd) = <<>>

\* Request.validate: TRUE when it returns an error.
validate(r) ==
    IF Len(r.Args) = 0
    THEN TrimSpace(r.Cmd) = <<>>
    ELSE TrimSpace(r.Cmd) # <<>>

\* parseError that never looks for the "error" field.
parseErrorRawOnly(status, body) ==
    [StatusCode |-> status, Message |-> TrimSpace(body.raw)]

\* parseError: the *InvokeError made from a status and a body.
parseError(status, body) ==
    IF body.json /\ TrimSpace(body.error) # <<>>
    THEN [StatusCode |-> status, Message |-> body.error]
    ELSE [StatusCode |-> status, Message |-> TrimSpace(body.raw)]

SdkInit ==
    /\ HandlerIdle
    /\ BufIdle
    /\ RunIdle
    /\ FnIdle
    /\ CacheIdle
    /\ SdkIdle

sdkRest == <<handlerVars, bufVars, runVars, fnVars, cacheVars>>

\* Lines 153-167: the nil check, the validation and the building of the
\* HTTP request.
SdkInvoke ==
    /\ sdk.pc = "idle"
    /\ \E r \in SdkRequests, nilClient \in BOOLEAN, built \in BOOLEAN :
          sdk' = [SdkNone EXCEPT
                     !.req = r, !.nilClient = nilClient,
                     !.pc = IF nilClient \/ validate(r) \/ ~built THEN "done" ELSE "do",
                     !.err = IF nilClient THEN "nilclient"
                             ELSE IF validate(r) THEN "validation"
                             ELSE IF ~built THEN "build"
                             ELSE "none"]
    /\ UNCHANGED sdkRest

\* Line 170, c.httpClient.Do: the request goes out; a response comes back
\* or the exchange fails.
SdkDo ==
    /\ sdk.pc = "do"
    /\ \/ sdk' = [sdk EXCEPT !.http = @ + 1, !.pc = "done", !.err = "transport"]
       \/ \E st \in Statuses, b \in Bodies :
             sdk' = [sdk EXCEPT !.http = @ + 1, !.pc = "read", !.status = st, !.body = b]
    /\ UNCHANGED sdkRest

\* Lines 176-179, io.ReadAll of the body.
SdkRead ==
    /\ sdk.pc = "read"
    /\ \/ sdk' = [sdk EXCEPT !.pc = "done", !.err = "read"]
       \/ sdk' = [sdk EXCEPT !.pc = "parse"]
    /\ UNCHANGED sdkRest

\* Lines 181-189: a status outside 2xx becomes an *InvokeError, a 2xx body
\* is decoded.
SdkParse ==
    /\ sdk.pc = "parse"
    /\ sdk' = IF sdk.status < 200 \/ sdk.status >= 300
              THEN [sdk EXCEPT !.pc = "done", !.err = "invoke",
                               !.ierr = parseError(sdk.status, sdk.body)]
              ELSE [sdk EXCEPT !.pc = "done",
                               !.err = IF sdk.body.json THEN "nil" ELSE "decode"]
    /\ UNCHANGED sdkRest

\* Invoke has returned; the client may be called again.
SdkReturn ==
    /\ sdk.pc = "done"
    /\ sdk' = SdkNone
    /\ UNCHANGED sdkRest

SdkNext == SdkInvoke \/ SdkDo \/ SdkRead \/ SdkParse \/ SdkReturn

SdkSpec == SdkInit /\ [][SdkNext]_vars

\* What the request of the call in progress supplies.
SdkHasArgs == Len(sdk.req.Args) > 0
SdkHasCmd == TrimSpace(sdk.req.Cmd) # <<>>

(***************************************************************************)
(* C25: the SDK client validates a request before sending it: Invoke       *)
(* returns an error and performs no HTTP request when the request has      *)
(* neither args nor a non-blank cmd, and when it has both; a request with  *)
(* exactly one of them passes validation.                                  *)
(***************************************************************************)
C25_ValidatedBeforeSending ==
    sdk.pc # "idle" =>
        /\ (SdkHasArgs <=> SdkHasCmd) =>
              /\ sdk.pc = "done"
              /\ sdk.err \in {"validation", "nilclient"}
              /\ sdk.http = 0
        /\ (SdkHasArgs # SdkHasCmd) => sdk.err # "validation"
        /\ sdk.http > 0 => (SdkHasArgs # SdkHasCmd)
        /\ sdk.http <= 1

\* C25 witness: a request with both args and cmd was refused without an
\* HTTP request.
C25_Witness ==
    /\ sdk.pc = "done" /\ sdk.err = "validation"
    /\ SdkHasArgs /\ SdkHasCmd
    /\ sdk.http = 0

\* Invoke has returned after a response came back; the response's status is
\* outside 2xx; the message the claim expects for its body.
SdkResponded == sdk.pc = "done" /\ sdk.http = 1 /\ sdk.err # "transport"
SdkNonSuccess == sdk.status < 200 \/ sdk.status >= 300
SdkExpectedMessage ==
    IF sdk.body.json /\ TrimSpace(sdk.body.error) # <<>>
    THEN sdk.body.error
    ELSE TrimSpace(sdk.body.raw)

(***************************************************************************)
(* C26 as stated: every response with a status below 200 or at least 300   *)
(* becomes an *InvokeError with that status and, as message, the body's    *)
(* "error" field when present and non-blank, the trimmed raw body          *)
(* otherwise; a 2xx response never becomes an *InvokeError.  It fails for  *)
(* a response whose body cannot be read: Invoke returns the read error.    *)
(***************************************************************************)
C26_AsStated ==
    SdkResponded =>
        /\ SdkNonSuccess =>
              /\ sdk.err = "invoke"
              /\ sdk.ierr.StatusCode = sdk.status
              /\ sdk.ierr.Message = SdkExpectedMessage
        /\ ~SdkNonSuccess => sdk.err # "invoke"

\* C26 as amended: the same, for every response whose body was read in
\* full; when reading the body fails, Invoke returns the read error,
\* whatever the status.
C26_NonSuccessBecomesInvokeError ==
    SdkResponded =>
        /\ (SdkNonSuccess /\ sdk.err # "read") =>
              /\ sdk.err = "invoke"
              /\ sdk.ierr.StatusCode = sdk.status
              /\ sdk.ierr.Message = SdkExpectedMessage
        /\ ~SdkNonSuccess => (sdk.err \in {"nil", "decode", "read"}
                              /\ sdk.ierr = NoInvokeError)
        /\ sdk.err = "read" => sdk.ierr = NoInvokeError

\* C26 witness: a 403 whose body has a padded "error" field became an
\* *InvokeError with the field, untrimmed, as its message.
C26_Witness ==
    /\ SdkResponded /\ sdk.status = 403
    /\ sdk.body.error = sErrNoPadded
    /\ sdk.err = "invoke"
    /\ sdk.ierr = [StatusCode |-> 403, Message |-> sErrNoPadded]

(***************************************************************************)
(* C27: both captured strings of every Result are bounded by the effective *)
(* cap: len(Stdout) <= cap and len(Stderr) <= cap for every Run, also when *)
(* the run error text is appended to the captured stderr and when stderr   *)
(* is the text of the error alone.                                         *)
(***************************************************************************)
C27_ResultBounded ==
    runPc = "returned" =>
        /\ Len(res.Stdout) <= rcap
        /\ Len(res.Stderr) <= rcap

\* C27 witness: the child filled stderr and exited with a non-zero status
\* under a configured cap; the error text was appended and the whole cut
\* back to the cap.
C27_Witness ==
    /\ runPc = "returned" /\ child = "exited" /\ childCode # 0
    /\ rcap = rcfg.MaxOutputBytes
    /\ Len(wrote["stderr"]) = rcap
    /\ res.Truncated
    /\ res.Stderr # <<>> /\ Len(res.Stderr) <= rcap

\* The target reference the handler compares against the allow-list: it is
\* extracted from the arguments as they stand after the contracts loop.
CheckedTarget == extractExecuteContract(ArgsBeforeKey)

(***************************************************************************)
(* C28: when the subcommand is execute and the namespace allow-list is     *)
(* non-empty, the target reference compared against the allow-list is      *)
(* extracted from a token the client sent: the configured --endpoint       *)
(* value, spliced in before the target check, is never taken as the        *)
(* target reference, whatever the configured value.                        *)
(***************************************************************************)
C28_TargetFromClientToken ==
    ReachedTargetCheck =>
        /\ CheckedTarget = extractExecuteContract(ReqArgs)
        /\ CheckedTarget.contract # <<>> =>
              \E i \in 1..Len(ReqArgs) :
                  extractExecuteContract(<<ReqArgs[i]>>) = CheckedTarget

\* The subcommands the configuration names (case-folded, blanks dropped).
NamedCommands ==
    {ToLower(TrimSpace(cfgEnv.AllowedCommands[i])) : i \in 1..Len(cfgEnv.AllowedCommands)}
    \ {<<>>}

(***************************************************************************)
(* C29: for every allowed-subcommand configuration, a list whose entries   *)
(* are all blank included, the effective allowed set built by the handler  *)
(* is non-empty, so a request whose non-empty subcommand is neither named  *)
(* in the configuration nor the default "execute" is rejected with 403     *)
(* and never executed.                                                     *)
(***************************************************************************)
C29_AllowedSetNonEmpty ==
    ReachedSubcommandCheck =>
        /\ allowedCommands(cfgEnv) # {}
        /\ (ReqSubcommand # <<>> /\ ReqSubcommand \notin NamedCommands
               /\ ReqSubcommand # sExecute)
              => (resp.status = StatusForbidden /\ ~RanProcess)

\* The private key values a deployment may be configured with.
KeyValues == {<<>>, sKey, sKey2}

\* What the handler does with the same request, the same environment and
\* the same configuration except for the private key k.
WithPrivateKey(k) == handler(req, [cfgEnv EXCEPT !.LeoPrivateKey = k], env)

\* The request's tokens under the private key k.
ReqArgsWithKey(k) == parseArgs(req, [cfgEnv EXCEPT !.LeoPrivateKey = k]).args

\* Key injection does not apply: the request carries --private-key or -k,
\* or its subcommand is not execute.
NoKeyInjection(args) ==
    \/ hasAnyFlag(args, {sPrivateKeyFlag, sKFlag})
    \/ firstSubcommand(args).sub # sExecute

(***************************************************************************)
(* C30: the argument list handed to the runner depends on the configured   *)
(* private key only through the injected "--private-key", key pair: for    *)
(* two runs of the handler on the same request and the same configuration  *)
(* except for the private key, if the request carries --private-key or -k  *)
(* or its subcommand is not execute, the two argument lists are identical, *)
(* requests given as a cmd string included.                                *)
(***************************************************************************)
C30_KeyOnlyThroughInjection ==
    (RanProcess /\ NoKeyInjection(ReqArgs)) =>
        \A k \in KeyValues :
            LET other == WithPrivateKey(k)
            IN  (other.runCalls # <<>> /\ NoKeyInjection(ReqArgsWithKey(k)))
                    => other.runCalls[1].Args = RunArgs

====
